---- MODULE Spec2Model ----
(***************************************************************************)
(* Ingestion pipeline of SN-Sifu: ArticleProcessor (process_kb_article,    *)
(* process_ticket, process_dataframe) over CosmosDBManager (get_item,      *)
(* upsert_item) and EmbeddingManager (get_embedding with its retry).       *)
(*                                                                         *)
(* Strings are modelled as tuples of tokens: the article id "KB1" is       *)
(* <<"KB1">>, the ticket id f"{tracking_index}_{now}" is the tuple         *)
(* tracking_index \o <<"_", now>>, and a version string "1.25" is the      *)
(* digit tuple <<1, 2, 5>> (one integer digit, the rest fraction digits).  *)
(* A dict is a function from its keys to its values.  None is <<>> and a   *)
(* present value v is <<v>>.                                               *)
(***************************************************************************)
EXTENDS Integers, Sequences, FiniteSets, TLC

\* ---- big naturals: NLimbs limbs of 15 bits, least significant first ----
BASE == 32768
NLimbs == 8
FracBits == 56
MantBits == 53
MaxDigits == 17

BigZero == [i \in 1..NLimbs |-> 0]
IsBig(a) == Len(a) = NLimbs
\* the element of a set of one element: Only({e(x) : x \in {v}}) is e(v) with v
\* computed once
Only(S) == CHOOSE x \in S : TRUE

RECURSIVE MulAddFrom(_, _, _, _)
MulAddFrom(a, m, c, i) ==
    IF i > NLimbs THEN <<>>
    ELSE LET t == a[i] * m + c
         IN  IF t >= 0 THEN <<t % BASE>> \o MulAddFrom(a, m, t \div BASE, i + 1) ELSE <<>>
\* a * m + c
MulAdd(a, m, c) == IF IsBig(a) THEN MulAddFrom(a, m, c, 1) ELSE a

RECURSIVE DivFrom(_, _, _, _)
DivFrom(a, d, r, i) ==
    IF i = 0 THEN [q |-> <<>>, r |-> r]
    ELSE LET t == r * BASE + a[i]
         IN  IF t >= 0
             THEN LET rest == DivFrom(a, d, t % d, i - 1)
                  IN  [q |-> Append(rest.q, t \div d), r |-> rest.r]
             ELSE [q |-> <<>>, r |-> 0]
\* quotient and remainder of a by the small number d
DivMod(a, d) == IF IsBig(a) THEN DivFrom(a, d, 0, NLimbs) ELSE [q |-> a, r |-> 0]

RECURSIVE BigAddFrom(_, _, _, _)
BigAddFrom(a, b, c, i) ==
    IF i > NLimbs THEN <<>>
    ELSE LET t == a[i] + b[i] + c
         IN  IF t >= 0 THEN <<t % BASE>> \o BigAddFrom(a, b, t \div BASE, i + 1) ELSE <<>>
BigAdd(a, b) == IF IsBig(a) /\ IsBig(b) THEN BigAddFrom(a, b, 0, 1) ELSE a

RECURSIVE Pow10(_)
Pow10(n) == IF n = 0 THEN 1 ELSE 10 * Pow10(n - 1)

RECURSIVE Pow2(_)
Pow2(n) == IF n = 0 THEN 1 ELSE 2 * Pow2(n - 1)

RECURSIVE SmallBits(_)
SmallBits(n) == IF n = 0 THEN 0 ELSE 1 + SmallBits(n \div 2)

RECURSIVE TopLimb(_, _)
TopLimb(a, i) == IF i = 0 THEN 0 ELSE IF a[i] # 0 THEN i ELSE TopLimb(a, i - 1)
\* number of bits of a
BitLen(a) == LET h == TopLimb(a, NLimbs)
             IN  IF h = 0 THEN 0 ELSE 15 * (h - 1) + SmallBits(a[h])

\* a * 2^n
RECURSIVE ShiftLeft(_, _)
ShiftLeft(a, n) ==
    IF n < 14 THEN MulAdd(a, Pow2(n), 0)
    ELSE LET nxt == MulAdd(a, 16384, 0)
         IN  IF IsBig(nxt) THEN ShiftLeft(nxt, n - 14) ELSE nxt

\* floor(a / d^n), and whether a remainder was dropped on the way
RECURSIVE DivPow(_, _, _, _)
DivPow(a, d, n, sticky) ==
    IF n = 0 THEN [q |-> a, sticky |-> sticky]
    ELSE LET s == DivMod(a, d)
             st == sticky \/ s.r # 0
         IN  IF st \in BOOLEAN THEN DivPow(s.q, d, n - 1, st) ELSE s

\* floor(a / 10^n) and the sticky flag, four digits at a time
DivTen(a, n) ==
    LET c == DivPow(a, 10000, n \div 4, FALSE)
    IN  DivPow(c.q, Pow10(n % 4), 1, c.sticky)

\* h = floor(2 v), sticky = (2 v is not an integer): v rounded to the nearest integer, ties to even
RoundHalfEven(h, sticky) ==
    LET s == DivMod(h, 2)
        up == s.r = 1 /\ (sticky \/ s.q[1] % 2 = 1)
    IN  MulAdd(s.q, 1, IF up THEN 1 ELSE 0)

\* ---- IEEE-754 binary64 values in [2^-4, 8), held as a count of 2^-FracBits ----
\* t = floor(2 v) for a value v counted in 2^-FracBits: v rounded to MantBits significant bits
RoundToDouble(t, sticky) ==
    LET e == BitLen(t) - 1 - MantBits
    IN  IF e <= 0 THEN RoundHalfEven(t, sticky)
        ELSE LET s == DivMod(t, Pow2(e))
             IN  MulAdd(RoundHalfEven(s.q, sticky \/ s.r # 0), Pow2(e), 0)

\* the number written by the digits s[i..j], j - i < 4
RECURSIVE SmallNumber(_, _, _)
SmallNumber(s, i, j) == IF j < i THEN 0 ELSE 10 * SmallNumber(s, i, j - 1) + s[j]

\* the number written by the digit string s, from digit i on, four digits at a time
RECURSIVE DigitsToBig(_, _, _)
DigitsToBig(s, i, acc) ==
    IF i > Len(s) THEN acc
    ELSE LET j == IF i + 3 > Len(s) THEN Len(s) ELSE i + 3
             nxt == MulAdd(acc, Pow10(j - i + 1), SmallNumber(s, i, j))
         IN  IF IsBig(nxt) THEN DigitsToBig(s, j + 1, nxt) ELSE nxt

\* float(s) of a decimal string s[1] "." s[2] s[3] ... (one integer digit)
Float(s) ==
    LET n == DigitsToBig(s, 1, BigZero)
        d == DivTen(ShiftLeft(n, FracBits + 1), Len(s) - 1)
    IN  RoundToDouble(d.q, d.sticky)

\* x + y of two doubles, rounded as the hardware rounds it
FloatAdd(x, y) == RoundToDouble(MulAdd(BigAdd(x, y), 2, 0), FALSE)

\* the last 4 n decimal digits of a
RECURSIVE BigToDigits(_, _)
BigToDigits(a, n) ==
    IF n = 0 THEN <<>>
    ELSE LET s == DivMod(a, 10000)
         IN  IF s.r < 10000
             THEN BigToDigits(s.q, n - 1) \o
                  <<s.r \div 1000, (s.r \div 100) % 10, (s.r \div 10) % 10, s.r % 10>>
             ELSE <<>>
\* the last n decimal digits of a
LastDigits(a, n) ==
    LET d == BigToDigits(a, (n + 3) \div 4)
    IN  SubSeq(d, Len(d) - n + 1, Len(d))

\* a * 10^n
RECURSIVE ScaleTen(_, _)
ScaleTen(a, n) ==
    IF n < 4 THEN MulAdd(a, Pow10(n), 0)
    ELSE LET nxt == MulAdd(a, 10000, 0)
         IN  IF IsBig(nxt) THEN ScaleTen(nxt, n - 4) ELSE nxt

\* the double x rounded (ties to even) to f fraction digits, as a digit string
ToFixed(x, f) ==
    LET a == DivPow(ScaleTen(x, f), BASE, (FracBits - 1) \div 15, FALSE)
        b == DivPow(a.q, Pow2((FracBits - 1) % 15), 1, a.sticky)
    IN  LastDigits(RoundHalfEven(b.q, b.sticky), f + 1)

\* str(x) of a double: the shortest digit string that float() maps back to x,
\* with at least one fraction digit
Str(x) ==
    LET ok == {f \in 0..MaxDigits : Float(ToFixed(x, f)) = x}
        f == CHOOSE g \in ok : \A h \in ok : g <= h
    IN  IF f = 0 THEN Append(ToFixed(x, 0), 0) ELSE ToFixed(x, f)

\* ---- big naturals: comparison, difference, product, quotient, square root ----
RECURSIVE BigLessFrom(_, _, _)
BigLessFrom(a, b, i) ==
    IF i = 0 THEN FALSE
    ELSE IF a[i] # b[i] THEN a[i] < b[i] ELSE BigLessFrom(a, b, i - 1)
BigLess(a, b) == BigLessFrom(a, b, NLimbs)

RECURSIVE BigSubFrom(_, _, _, _)
BigSubFrom(a, b, c, i) ==
    IF i > NLimbs THEN <<>>
    ELSE LET t == a[i] - b[i] - c
         IN  IF t < 0 THEN <<t + BASE>> \o BigSubFrom(a, b, 1, i + 1)
             ELSE <<t>> \o BigSubFrom(a, b, 0, i + 1)
\* a - b, for b <= a
BigSub(a, b) == IF IsBig(a) /\ IsBig(b) THEN BigSubFrom(a, b, 0, 1) ELSE a

BigOf(n) == MulAdd(BigZero, 1, n)

RECURSIVE BigMulFrom(_, _, _, _)
BigMulFrom(a, b, i, acc) ==
    IF i = 0 THEN acc
    ELSE LET nxt == BigAdd(MulAdd(acc, BASE, 0), MulAdd(a, b[i], 0))
         IN  IF IsBig(nxt) THEN BigMulFrom(a, b, i - 1, nxt) ELSE nxt
BigMul(a, b) == BigMulFrom(a, b, NLimbs, BigZero)

\* long division, one bit: s.r is what is left of the dividend, s.q the quotient
\* so far, s.bit the quotient bit under test
DivStep(s, d) ==
    IF s.bit < 0 THEN s
    ELSE LET t == ShiftLeft(d, s.bit)
         IN  IF BigLess(s.r, t) THEN [s EXCEPT !.bit = @ - 1]
             ELSE [q |-> BigAdd(s.q, ShiftLeft(BigOf(1), s.bit)), r |-> BigSub(s.r, t),
                   bit |-> s.bit - 1]
RECURSIVE BigDivFrom(_, _)
BigDivFrom(s, d) ==
    IF s.bit < 0 THEN s
    ELSE LET nxt == DivStep(DivStep(DivStep(DivStep(s, d), d), d), d)
         IN  IF nxt.bit < s.bit THEN BigDivFrom(nxt, d) ELSE nxt
\* quotient q and remainder r of n by d, d > 0
BigDivMod(n, d) == BigDivFrom([q |-> BigZero, r |-> n, bit |-> BitLen(n) - BitLen(d)], d)

\* integer square root, one bit: s.r is what is left of the radicand, s.q the
\* root so far, s.bit the exponent of the power of 4 under test
SqrtStep(s) ==
    IF s.bit < 0 THEN s
    ELSE LET b == ShiftLeft(BigOf(1), s.bit)
             t == BigAdd(s.q, b)
             half == DivMod(s.q, 2).q
         IN  IF BigLess(s.r, t) THEN [s EXCEPT !.q = half, !.bit = @ - 2]
             ELSE [q |-> BigAdd(half, b), r |-> BigSub(s.r, t), bit |-> s.bit - 2]
RECURSIVE BigSqrtFrom(_)
BigSqrtFrom(s) ==
    IF s.bit < 0 THEN s
    ELSE LET nxt == SqrtStep(SqrtStep(SqrtStep(SqrtStep(s))))
         IN  IF nxt.bit < s.bit THEN BigSqrtFrom(nxt) ELSE nxt
\* floor of the square root q of n, and the remainder r = n - q^2
BigSqrt(n) == BigSqrtFrom([q |-> BigZero, r |-> n, bit |-> 2 * ((BitLen(n) - 1) \div 2)])

\* ---- more IEEE-754 binary64 arithmetic ----
\* sqrt(m) of a small natural number m
FloatSqrt(m) ==
    LET s == BigSqrt(ShiftLeft(BigOf(m), 2 * FracBits + 2))
    IN  RoundToDouble(s.q, s.r # BigZero)

\* x * y of two doubles
FloatMul(x, y) ==
    IF ~(IsBig(x) /\ IsBig(y)) THEN x ELSE
    LET a == DivPow(BigMul(x, y), BASE, (FracBits - 1) \div 15, FALSE)
        b == DivPow(a.q, Pow2((FracBits - 1) % 15), 1, a.sticky)
    IN  RoundToDouble(b.q, b.sticky)

\* m / y of a small natural number m and a double y > 0
FloatDiv(m, y) ==
    IF ~IsBig(y) THEN y ELSE
    LET s == BigDivMod(ShiftLeft(BigOf(m), 2 * FracBits + 1), y)
    IN  RoundToDouble(s.q, s.r # BigZero)

\* ---- article_processor.py line 55: str(float(article["Version"]) + 0.1) ----
FloatIncrement(v) == Str(FloatAdd(Float(v), Float(<<0, 1>>)))

\* ---- bounds of the model ----
MaxClock == 1          \* datetime.now() takes the values 0..MaxClock
MaxCalls == 2          \* calls of the one caller over a behaviour
MaxRaceCalls == 3      \* calls of the concurrent callers over a behaviour
MaxRows == 2           \* rows of a DataFrame
MaxSearchCalls == 2
MaxIngestCalls == 2    \* calls of the caller who searches
MaxCandidates == 3     \* embeddings passed to find_most_similar
MaxTopK == 3           \* top_k passed to find_most_similar
MaxCoreCalls == 2      \* calls of the caller of the five operations
MaxTexts == 3          \* texts passed to get_embeddings and get_embedding_batch

Procs == {"c1", "c2"}                         \* concurrent callers of the processor
ArticleIds == {<<"KB1">>, <<"KB2">>}
RawVersions == {<<1, 0>>, <<1, 1>>}           \* "1.0", "1.1"
TrackingIndexes == {<<"T1">>, <<"T2">>}
Vectors == {<<1, 0>>, <<0, 1>>}               \* what the embedding provider may answer
ProviderErrors == {"RateLimitError", "APITimeoutError"}

ArticleKeys == {"KB Article #", "Version", "Category", "Title", "Introduction", "Instructions", "Keywords"}
TicketKeys == {"tracking_index", "Description", "Close Notes", "summarize_ticket", "ticket_quality",
               "user_proficiency_level", "potential_impact", "resolution_appropriateness",
               "potential_root_cause"}
optional_fields == {"summarize_ticket_explanation", "ticket_quality_explanation",
                    "user_proficiency_level_explanation", "potential_impact_explanation",
                    "resolution_appropriateness_explanation", "potential_root_cause_explanation"}

\* the increments of the versions the callers pass, computed once
IncrementOfRaw == [v \in RawVersions |-> FloatIncrement(v)]
IncrementVersion(v) == IF v \in RawVersions THEN IncrementOfRaw[v] ELSE FloatIncrement(v)

\* a raw KB article as the caller passes it
RawArticle(id, version) ==
    [k \in ArticleKeys |->
        CASE k = "KB Article #" -> id
          [] k = "Version" -> version
          [] OTHER -> <<k, "of", id[1]>>]
ArticleRaws == {RawArticle(id, v) : id \in ArticleIds, v \in RawVersions}

\* a raw ticket; T2 carries one of the optional explanation fields
RawTicket(ti) ==
    [k \in TicketKeys \cup (IF ti = <<"T2">> THEN {"ticket_quality_explanation"} ELSE {}) |->
        IF k = "tracking_index" THEN ti ELSE <<k, "of", ti[1]>>]
TicketRaws == {RawTicket(ti) : ti \in TrackingIndexes}

RECURSIVE SeqsUpTo(_, _)
SeqsUpTo(S, n) ==
    IF n = 0 THEN {<<>>}
    ELSE LET shorter == SeqsUpTo(S, n - 1)
         IN  shorter \cup {Append(s, x) : s \in {t \in shorter : Len(t) = n - 1}, x \in S}
\* the calls of process_dataframe: a DataFrame of articles or of tickets (every
\* row of a DataFrame has the same columns) and the item_type that goes with
\* it, or one that is not a valid item_type
DataFrameCalls ==
    (SeqsUpTo(ArticleRaws, MaxRows) \X {"kb_article", "kb_articles"})
        \cup (SeqsUpTo(TicketRaws, MaxRows) \X {"ticket"})

VARIABLES
    store,      \* the Cosmos container: a set of documents
    clock,      \* the value datetime.now() returns
    task,       \* task[p]: the call caller p has in flight or has finished, and its locals
    calls_left, \* number of calls the callers may still start
    upserted,   \* history: <<id, time>> of every item stored, in the order of the upserts
    engine      \* a direct call of a method of EmbeddingManager: its arguments, locals and result

vars == <<store, clock, task, calls_left, upserted, engine>>

None == <<>>
Some(v) == <<v>>

\* locals of a caller that has made no call yet
Idle == [pc |-> "idle", op |-> "none", item_type |-> "none", df |-> <<>>, i |-> 0,
         processed_items |-> <<>>, article |-> None, existing |-> None, attempts |-> 0,
         last |-> None, item |-> None, ret |-> None, top_k |-> 0, items |-> None, kb_articles |-> None,
         \* history of the call: the item as the caller passed it, the reading of
         \* datetime.now() that made the item, the store when the call began, the
         \* upserts done, the last row with a provider or store call, and whether
         \* the document read by get_item had changed when the item was stored
         raw |-> None, at |-> 0, store0 |-> {}, writes |-> 0, touched |-> 0, stale |-> FALSE,
         \* the calls of the store and of the embedding manager that the
         \* processing of the current item has made, in order
         calls |-> <<>>]

Finished == {"idle", "done", "failed", "cancelled"}

\* ---- CosmosDBManager ----
\* container.upsert_item: the container is partitioned by /id, so the document
\* with the id of item, if any, is replaced
UpsertAdds(st, item) == st \cup {item}
\* a write that leaves the item alone in the container
UpsertAlone(st, item) == {item}
\* a write that gives the embedding of the item to every document
UpsertRestamps(st, item) == {[d EXCEPT !.embedding = item.embedding] : d \in {e \in st : e.id # item.id}} \cup {item}
Upsert(st, item) == {d \in st : d.id # item.id} \cup {item}

\* container.read_item wrapped by get_item: the document or None
\* a lookup that never finds the id
get_item_not_found(st, item_id) == None
get_item(st, item_id) ==
    IF \E d \in st : d.id = item_id
    THEN Some(CHOOSE d \in st : d.id = item_id)
    ELSE None

\* get_items_by_type: SELECT * FROM c WHERE c.type = @type
get_items_by_type(st, item_type) == {d \in st : d.type = item_type}

\* ---- ArticleProcessor ----
RaiseReturnsItems(L, err) == [L EXCEPT !.pc = "done", !.ret = <<"ok", L.processed_items>>]
\* an exception leaves the call: the except clauses log and re-raise
Raise(L, err) == [L EXCEPT !.pc = "failed", !.ret = <<"error", err>>]

\* for key, value in article.items(): existing_article[key] = value
Merge(existing_article, article) ==
    [k \in DOMAIN existing_article \cup DOMAIN article |->
        IF k \in DOMAIN article THEN article[k] ELSE existing_article[k]]

\* as BeginArticle, but without the lookup: straight to the await of get_embedding
BeginArticleWithoutLookup(L, article) ==
    IF {"KB Article #", "Title", "Introduction", "Instructions"} \subseteq DOMAIN article
    THEN [L EXCEPT !.pc = "get_embedding", !.article = Some(article), !.existing = None,
                   !.attempts = 0, !.last = None, !.item = None, !.raw = Some(article),
                   !.calls = <<"get_embedding">>]
    ELSE Raise([L EXCEPT !.raw = Some(article)], "KeyError")
\* process_kb_article up to the await of get_item (line 49)
BeginArticle(L, article) ==
    IF "KB Article #" \notin DOMAIN article
    THEN Raise([L EXCEPT !.raw = Some(article)], "KeyError")
    ELSE [L EXCEPT !.pc = "get_item", !.article = Some(article), !.existing = None,
                   !.attempts = 0, !.last = None, !.item = None, !.raw = Some(article),
                   !.calls = <<"get_item">>]

\* as AfterGetItem, but an id that is not stored is an error of the lookup
AfterGetItemRaisesNotFound(L, existing_article) ==
    IF existing_article = None
    THEN Raise(L, "CosmosResourceNotFoundError")
    ELSE LET merged == Merge(existing_article[1], L.article[1])
         IN  IF {"Version", "Title", "Introduction", "Instructions"} \subseteq DOMAIN merged
             THEN [L EXCEPT !.pc = "get_embedding",
                            !.article = Some([merged EXCEPT !["Version"] = IncrementVersion(@)]),
                            !.existing = existing_article,
                            !.calls = Append(@, "get_embedding")]
             ELSE Raise([L EXCEPT !.existing = existing_article], "KeyError")
\* process_kb_article from the answer of get_item to the await of get_embedding (lines 50-62)
AfterGetItem(L, existing_article) ==
    LET found == existing_article # None
        merged == IF found THEN Merge(existing_article[1], L.article[1]) ELSE L.article[1]
    IN  IF found /\ "Version" \notin DOMAIN merged
        THEN Raise([L EXCEPT !.existing = existing_article], "KeyError")
        ELSE LET article == IF found
                            THEN [merged EXCEPT !["Version"] = IncrementVersion(@)]
                            ELSE merged
             IN  IF {"Title", "Introduction", "Instructions"} \subseteq DOMAIN article
                 THEN [L EXCEPT !.pc = "get_embedding", !.article = Some(article),
                                !.existing = existing_article,
                                !.calls = Append(@, "get_embedding")]
                 ELSE Raise([L EXCEPT !.existing = existing_article], "KeyError")

\* as PrepareArticle, but a key the article lacks is stored as the empty string
PrepareArticleWithDefaults(L, embedding, now) ==
    LET article == L.article[1]
        field(k) == IF k \in DOMAIN article THEN article[k] ELSE <<>>
    IN  [L EXCEPT !.pc = "upsert_item", !.at = now, !.calls = Append(@, "upsert_item"),
                  !.item = Some([id |-> field("KB Article #"),
                                 type |-> "kb_article",
                                 version |-> field("Version"),
                                 category |-> field("Category"),
                                 title |-> field("Title"),
                                 introduction |-> field("Introduction"),
                                 instructions |-> field("Instructions"),
                                 keywords |-> field("Keywords"),
                                 updated |-> now,
                                 embedding |-> embedding])]
\* process_kb_article from the embedding to the await of upsert_item (lines 65-79)
PrepareArticle(L, embedding, now) ==
    LET article == L.article[1]
    IN  IF {"KB Article #", "Version", "Category", "Title", "Introduction", "Instructions",
            "Keywords"} \subseteq DOMAIN article
        THEN [L EXCEPT !.pc = "upsert_item", !.at = now, !.calls = Append(@, "upsert_item"),
                       !.item = Some([id |-> article["KB Article #"],
                                      type |-> "kb_article",
                                      version |-> article["Version"],
                                      category |-> article["Category"],
                                      title |-> article["Title"],
                                      introduction |-> article["Introduction"],
                                      instructions |-> article["Instructions"],
                                      keywords |-> article["Keywords"],
                                      updated |-> now,
                                      embedding |-> embedding])]
        ELSE Raise(L, "KeyError")

\* process_ticket up to the await of get_embedding (line 99)
BeginTicket(L, ticket) ==
    IF {"Description", "Close Notes", "summarize_ticket"} \subseteq DOMAIN ticket
    THEN [L EXCEPT !.pc = "get_embedding", !.article = Some(ticket), !.existing = None,
                   !.attempts = 0, !.last = None, !.item = None, !.raw = Some(ticket),
                   !.calls = <<"get_embedding">>]
    ELSE Raise([L EXCEPT !.raw = Some(ticket)], "KeyError")

TicketIdWithoutTime(ticket, now) == ticket["tracking_index"]
\* f"{ticket['tracking_index']}_{datetime.now().isoformat()}" (line 104)
TicketId(ticket, now) == ticket["tracking_index"] \o <<"_", now>>

\* process_ticket from the embedding to the await of upsert_item (lines 103-130);
\* now and later are the two readings of datetime.now() (lines 104 and 116)
PrepareTicket(L, embedding, now, later) ==
    LET ticket == L.article[1]
        present == optional_fields \cap DOMAIN ticket
    IN  IF TicketKeys \subseteq DOMAIN ticket
        THEN [L EXCEPT !.pc = "upsert_item", !.at = now, !.calls = Append(@, "upsert_item"),
                       !.item = Some([id |-> TicketId(ticket, now),
                                      type |-> "ticket",
                                      tracking_index |-> ticket["tracking_index"],
                                      description |-> ticket["Description"],
                                      close_notes |-> ticket["Close Notes"],
                                      summary |-> ticket["summarize_ticket"],
                                      ticket_quality |-> ticket["ticket_quality"],
                                      user_proficiency |-> ticket["user_proficiency_level"],
                                      potential_impact |-> ticket["potential_impact"],
                                      resolution_appropriateness |-> ticket["resolution_appropriateness"],
                                      potential_root_cause |-> ticket["potential_root_cause"],
                                      embedding |-> embedding,
                                      created_at |-> later]
                                     @@ [k \in present |-> ticket[k]])]
        ELSE Raise(L, "KeyError")

PrependProcessed(processed_items, processed_item) == <<processed_item>> \o processed_items
\* processed_items.append(processed_item) (line 158)
AppendProcessed(processed_items, processed_item) == Append(processed_items, processed_item)

\* process_dataframe: the body of the loop for row L.i, up to the first await
\* of the item (lines 151-157)
Dispatch(L) ==
    LET item == L.df[L.i]
    IN  IF L.item_type = "kb_article" THEN BeginArticle(L, item)
        ELSE IF L.item_type = "ticket" THEN BeginTicket(L, item)
        ELSE Raise(L, "ValueError")

\* process_dataframe from row i on: the next row, or the return after the last
\* one (lines 150, 160-161)
Loop(L, i) ==
    IF i > Len(L.df)
    THEN [L EXCEPT !.pc = "done", !.i = i, !.ret = <<"ok", L.processed_items>>]
    ELSE Dispatch([L EXCEPT !.i = i])

\* the item has been stored: process_kb_article / process_ticket return it
\* (lines 82, 133), and process_dataframe goes on with the next row
Return(L) ==
    IF L.op = "process_dataframe"
    THEN Loop([L EXCEPT !.processed_items = AppendProcessed(@, L.item[1])], L.i + 1)
    ELSE [L EXCEPT !.pc = "done", !.ret = <<"ok", L.item[1]>>]

\* ---- EmbeddingManager ----
\* tenacity stop_after_attempt(5) (line 28)
MaxAttempts == 5
stop_after_attempt_late(attempt_number) == attempt_number > MaxAttempts
stop_after_attempt(attempt_number) == attempt_number >= MaxAttempts

\* ---- EmbeddingManager: cosine_similarity and find_most_similar ----
\* a similarity is a double: not-a-number, or a sign and a magnitude (zero is
\* held without a sign: 0.0 and -0.0 compare equal)
NaN == [nan |-> TRUE, neg |-> FALSE, mag |-> BigZero]
Number(neg, mag) == [nan |-> FALSE, neg |-> neg, mag |-> mag]

\* x < y of two doubles: false when either is not a number
FloatLess(x, y) ==
    /\ ~x.nan /\ ~y.nan
    /\ IF x.neg # y.neg THEN x.neg
       ELSE IF x.neg THEN BigLess(y.mag, x.mag) ELSE BigLess(x.mag, y.mag)

\* np.dot of two vectors of whole numbers: the first n products summed (exact)
RECURSIVE Dot(_, _, _)
Dot(vec1, vec2, n) == IF n = 0 THEN 0 ELSE Dot(vec1, vec2, n - 1) + vec1[n] * vec2[n]
Abs(n) == IF n < 0 THEN 0 - n ELSE n

\* np.linalg.norm(vec): sqrt(dot(vec, vec))
Norm(vec) == FloatSqrt(Dot(vec, vec, Len(vec)))

\* np.dot(vec1, vec2) / (np.linalg.norm(vec1) * np.linalg.norm(vec2)) for
\* vectors of one length: 0.0 / 0.0 is nan (numpy warns and does not raise)
Quotient(vec1, vec2) ==
    LET dot == Dot(vec1, vec2, Len(vec1))
        Divide(norms) == IF norms = BigZero THEN NaN ELSE Number(dot < 0, FloatDiv(Abs(dot), norms))
        Multiply(norm1, norm2) == Only({Divide(norms) : norms \in {FloatMul(norm1, norm2)}})
    IN  Only({Multiply(norm1, norm2) : norm1 \in {Norm(vec1)}, norm2 \in {Norm(vec2)}})

\* sorted(range(n), key=..., reverse=True), as list.sort does it for n < 64:
\* key[i + 1] is the key of index i
ISLT(key, x, y) == FloatLess(key[x + 1], key[y + 1])
reverse_slice(s) == SubSeq([i \in 1..Len(s) |-> s[Len(s) + 1 - i]], 1, Len(s))

RECURSIVE RunEnd(_, _, _, _)
RunEnd(s, key, n, descending) ==
    IF n < Len(s) /\ (ISLT(key, s[n + 1], s[n]) <=> descending)
    THEN RunEnd(s, key, n + 1, descending)
    ELSE n
\* the length of the run s starts with, and whether it is strictly descending
count_run(s, key) ==
    IF Len(s) < 2 THEN [n |-> Len(s), descending |-> FALSE]
    ELSE LET descending == ISLT(key, s[2], s[1])
         IN  [n |-> RunEnd(s, key, 2, descending), descending |-> descending]

RECURSIVE Bisect(_, _, _, _, _)
Bisect(s, key, pivot, l, r) ==
    IF l >= r THEN l
    ELSE LET p == l + (r - l) \div 2
         IN  IF ISLT(key, pivot, s[p]) THEN Bisect(s, key, pivot, l, p)
             ELSE Bisect(s, key, pivot, p + 1, r)
\* binary insertion sort of s, whose first start - 1 elements are sorted
RECURSIVE binarysort(_, _, _)
binarysort(s, key, start) ==
    IF start > Len(s) THEN s
    ELSE LET Insert(l) == SubSeq(s, 1, l - 1) \o <<s[start]>> \o SubSeq(s, l, start - 1)
                              \o SubSeq(s, start + 1, Len(s))
         IN  Only({binarysort(next, key, start + 1) :
                      next \in {Insert(l) : l \in {Bisect(s, key, s[start], 1, start)}}})

listsort(s, key) ==
    LET Reversed(run) ==
            (IF run.descending THEN reverse_slice(SubSeq(s, 1, run.n)) ELSE SubSeq(s, 1, run.n))
                \o SubSeq(s, run.n + 1, Len(s))
        Sorted(run) == Only({binarysort(first, key, run.n + 1) : first \in {Reversed(run)}})
    IN  Only({Sorted(run) : run \in {count_run(s, key)}})

sorted_reverse(key) ==
    Only({reverse_slice(sorted) :
             sorted \in {listsort(indices, key) : indices \in {reverse_slice([i \in 1..Len(key) |-> i - 1])}}})

SliceOneMore(s, top_k) ==
    SubSeq(s, 1, IF top_k >= 0 THEN (IF top_k + 1 < Len(s) THEN top_k + 1 ELSE Len(s))
                 ELSE Len(s) + top_k)
\* s[:top_k]
Slice(s, top_k) ==
    SubSeq(s, 1, IF top_k >= 0 THEN (IF top_k < Len(s) THEN top_k ELSE Len(s))
                 ELSE Len(s) + top_k)

\* the vectors the similarity functions are applied to, and their quotients
\* computed once (@@ makes an explicit table of the function)
Embeddings == Vectors \cup {<<1, 1>>, <<2, 2>>, <<-1, 0>>, <<0, 0>>, <<1, 0, 0>>}
QuotientOf ==
    [vec1 \in Embeddings, vec2 \in Embeddings |->
        IF Len(vec1) = Len(vec2) THEN Quotient(vec1, vec2) ELSE NaN] @@ <<>>

cosine_similarity_zip(embedding1, embedding2) ==
    LET n == IF Len(embedding1) < Len(embedding2) THEN Len(embedding1) ELSE Len(embedding2)
    IN  <<"ok", Quotient(SubSeq(embedding1, 1, n), SubSeq(embedding2, 1, n))>>
\* cosine_similarity (lines 94-108): np.dot raises ValueError when the two
\* vectors differ in length
cosine_similarity(embedding1, embedding2) ==
    IF Len(embedding1) # Len(embedding2) THEN <<"error", "ValueError">>
    ELSE <<"ok", QuotientOf[embedding1, embedding2]>>

\* find_most_similar (lines 110-125)
find_most_similar(query_embedding, embeddings, top_k) ==
    LET Rank(similarities) ==
            IF \E i \in 1..Len(similarities) : similarities[i][1] = "error"
            THEN <<"error", "ValueError">>
            ELSE Only({<<"ok", Slice(sorted_reverse(key), top_k)>> :
                          key \in {SubSeq([i \in 1..Len(similarities) |-> similarities[i][2]],
                                          1, Len(similarities))}})
    IN  Only({Rank(similarities) :
                 similarities \in {SubSeq([i \in 1..Len(embeddings) |->
                                              cosine_similarity(query_embedding, embeddings[i])],
                                          1, Len(embeddings))}})

\* ---- ArticleProcessor: search_similar_items and get_item_statistics ----
\* search_similar_items from the answer of get_items_by_type to its return
\* (lines 183-201); L.last holds the embedding of the query
RankItems(L, items) ==
    LET text == IF L.item_type = "kb_article" THEN "title" ELSE "description"
        n == Len(items)
        Result(item) ==
            [id |-> item["id"],
             type |-> L.item_type,
             content |-> item[text],
             similarity |-> cosine_similarity(L.last[2], item["embedding"])[2]]
        Results(similar_indices) ==
            IF similar_indices[1] = "error" THEN Raise(L, similar_indices[2])
            ELSE [L EXCEPT !.pc = "done",
                           !.ret = <<"ok", [a \in 1..Len(similar_indices[2]) |->
                                              Result(items[similar_indices[2][a] + 1])]>>]
    IN  IF \E i \in 1..n : "embedding" \notin DOMAIN items[i] THEN Raise(L, "KeyError")
        ELSE IF \E i \in 1..n : text \notin DOMAIN items[i] THEN Raise(L, "KeyError")
        ELSE Only({Results(similar_indices) :
                      similar_indices \in {find_most_similar(L.last[2],
                                                             [i \in 1..n |-> items[i]["embedding"]],
                                                             L.top_k)}})

\* dict.get(key, default)
Get(d, key, default) == IF key \in DOMAIN d THEN d[key] ELSE default
Unknown == <<"Unknown">>
CountsWithoutDefault(items, key, n) ==
    [v \in {items[i][key] : i \in {j \in 1..n : key \in DOMAIN items[j]}} |->
        Cardinality({i \in 1..n : key \in DOMAIN items[i] /\ items[i][key] = v})]
\* the table the loops of lines 225-234 build from the first n items:
\* table[value] = table.get(value, 0) + 1 for the value of key of each item
RECURSIVE Counts(_, _, _)
Counts(items, key, n) ==
    IF n = 0 THEN <<>>
    ELSE LET table == Counts(items, key, n - 1)
             value == Get(items[n], key, Unknown)
         IN  (value :> (Get(table, value, 0) + 1)) @@ table
\* get_item_statistics from the answers of get_items_by_type to its return (lines 217-236)
Statistics(L, kb_articles, tickets) ==
    [L EXCEPT !.pc = "done",
              !.ret = <<"ok", [total_kb_articles |-> Len(kb_articles),
                               total_tickets |-> Len(tickets),
                               kb_article_categories |-> Counts(kb_articles, "category", Len(kb_articles)),
                               ticket_quality_distribution |-> Counts(tickets, "ticket_quality", Len(tickets)),
                               user_proficiency_distribution |-> Counts(tickets, "user_proficiency", Len(tickets))]>>]

\* ---- the calls and their steps ----
CanCall(p) == task[p].pc \in Finished /\ calls_left > 0

Fresh(op, item_type, df) ==
    [Idle EXCEPT !.op = op, !.item_type = item_type, !.df = df, !.store0 = store]

\* a caller calls process_kb_article(article)
process_kb_article(p, article) ==
    /\ CanCall(p)
    /\ task' = [task EXCEPT ![p] = BeginArticle(Fresh("process_kb_article", "kb_article", <<>>), article)]
    /\ calls_left' = calls_left - 1
    /\ UNCHANGED <<store, clock, upserted, engine>>

\* a caller calls process_ticket(ticket)
process_ticket(p, ticket) ==
    /\ CanCall(p)
    /\ task' = [task EXCEPT ![p] = BeginTicket(Fresh("process_ticket", "ticket", <<>>), ticket)]
    /\ calls_left' = calls_left - 1
    /\ UNCHANGED <<store, clock, upserted, engine>>

\* a caller calls process_dataframe(df, item_type)
process_dataframe(p, df, item_type) ==
    /\ CanCall(p)
    /\ task' = [task EXCEPT ![p] = Loop(Fresh("process_dataframe", item_type, df), 1)]
    /\ calls_left' = calls_left - 1
    /\ UNCHANGED <<store, clock, upserted, engine>>

\* as search_similar_items, but the candidates are fetched first, the query
\* taken as embedded
search_similar_items_fetches_first(p, item_type, top_k) ==
    /\ CanCall(p)
    /\ task' = [task EXCEPT ![p] = [Fresh("search_similar_items", item_type, <<>>) EXCEPT
                                       !.pc = "get_items_by_type", !.top_k = top_k,
                                       !.last = <<"ok", <<1, 0>>>>]]
    /\ calls_left' = calls_left - 1
    /\ UNCHANGED <<store, clock, upserted, engine>>
\* a caller calls search_similar_items(query, item_type, top_k): the first
\* await is get_embedding(query) (line 177)
search_similar_items(p, item_type, top_k) ==
    /\ CanCall(p)
    /\ task' = [task EXCEPT ![p] = [Fresh("search_similar_items", item_type, <<>>) EXCEPT
                                       !.pc = "get_embedding", !.top_k = top_k]]
    /\ calls_left' = calls_left - 1
    /\ UNCHANGED <<store, clock, upserted, engine>>

\* a caller calls get_item_statistics(): the first await is
\* get_items_by_type('kb_article') (line 214)
get_item_statistics(p) ==
    /\ CanCall(p)
    /\ task' = [task EXCEPT ![p] = [Fresh("get_item_statistics", "kb_article", <<>>) EXCEPT
                                       !.pc = "get_items_by_type"]]
    /\ calls_left' = calls_left - 1
    /\ UNCHANGED <<store, clock, upserted, engine>>

\* a caller calls cosmos_manager.upsert_item(item) itself
upsert_item(p, item) ==
    /\ CanCall(p)
    /\ task' = [task EXCEPT ![p] = [Fresh("upsert_item", item.type, <<>>) EXCEPT
                                       !.pc = "upsert_item", !.item = Some(item), !.at = clock]]
    /\ calls_left' = calls_left - 1
    /\ UNCHANGED <<store, clock, upserted, engine>>

Touch(L) == [L EXCEPT !.touched = L.i]

\* the orders a query may list the documents of a set in
Listings(docs) ==
    {items \in [1..Cardinality(docs) -> docs] : \A i, j \in 1..Cardinality(docs) : i # j => items[i] # items[j]}

\* cosmos_manager.get_items_by_type answers with the documents of the type,
\* listed in some order
QueryAnswers(p) ==
    /\ task[p].pc = "get_items_by_type"
    /\ \E items \in Listings(get_items_by_type(store, task[p].item_type)) :
          task' = [task EXCEPT ![p] =
                      IF task[p].op = "search_similar_items"
                      THEN RankItems([task[p] EXCEPT !.items = Some(items)], items)
                      ELSE IF task[p].kb_articles = None
                      THEN [task[p] EXCEPT !.kb_articles = Some(items), !.item_type = "ticket"]
                      ELSE Statistics(task[p], task[p].kb_articles[1], items)]
    /\ UNCHANGED <<store, clock, calls_left, upserted, engine>>

\* cosmos_manager.get_items_by_type raises CosmosHttpResponseError
QueryFails(p) ==
    /\ task[p].pc = "get_items_by_type"
    /\ task' = [task EXCEPT ![p] = Raise(task[p], "CosmosHttpResponseError")]
    /\ UNCHANGED <<store, clock, calls_left, upserted, engine>>

\* cosmos_manager.get_item answers: the stored document or None
GetItemAnswers(p) ==
    /\ task[p].pc = "get_item"
    /\ task' = [task EXCEPT ![p] =
                   AfterGetItem(Touch(task[p]), get_item(store, task[p].article[1]["KB Article #"]))]
    /\ UNCHANGED <<store, clock, calls_left, upserted, engine>>

\* as GetItemFails, but the lookup that failed is made again
GetItemFailsAndIsRetried(p) ==
    /\ task[p].pc = "get_item"
    /\ Len(task[p].calls) < 3
    /\ task' = [task EXCEPT ![p] = [Touch(task[p]) EXCEPT !.calls = Append(@, "get_item")]]
    /\ UNCHANGED <<store, clock, calls_left, upserted, engine>>
\* cosmos_manager.get_item raises CosmosHttpResponseError
GetItemFails(p) ==
    /\ task[p].pc = "get_item"
    /\ task' = [task EXCEPT ![p] = Raise(Touch(task[p]), "CosmosHttpResponseError")]
    /\ UNCHANGED <<store, clock, calls_left, upserted, engine>>

\* one attempt of get_embedding succeeds: the provider answers embedding
EmbeddingAnswers(p, embedding) ==
    /\ task[p].pc = "get_embedding"
    /\ LET L == [Touch(task[p]) EXCEPT !.attempts = @ + 1, !.last = <<"ok", embedding>>]
       IN  IF L.op = "search_similar_items"
           THEN /\ task' = [task EXCEPT ![p] = [L EXCEPT !.pc = "get_items_by_type"]]
                /\ clock' = clock
           ELSE IF L.item_type = "kb_article"
           THEN /\ task' = [task EXCEPT ![p] = PrepareArticle(L, embedding, clock)]
                /\ clock' = clock
           ELSE \E later \in {clock, IF clock < MaxClock THEN clock + 1 ELSE clock} :
                  /\ task' = [task EXCEPT ![p] = PrepareTicket(L, embedding, clock, later)]
                  /\ clock' = later
    /\ UNCHANGED <<store, calls_left, upserted, engine>>

\* one attempt of get_embedding fails with a provider error: tenacity retries
\* it, or raises RetryError holding the last error once stop_after_attempt holds
EmbeddingFails(p, err) ==
    /\ task[p].pc = "get_embedding"
    /\ LET L == [Touch(task[p]) EXCEPT !.attempts = @ + 1, !.last = <<"error", err>>]
       IN  task' = [task EXCEPT ![p] =
                       IF stop_after_attempt(L.attempts)
                       THEN [L EXCEPT !.pc = "failed", !.ret = <<"error", "RetryError", err>>]
                       ELSE L]
    /\ UNCHANGED <<store, clock, calls_left, upserted, engine>>

\* cosmos_manager.upsert_item succeeds
UpsertSucceeds(p) ==
    /\ task[p].pc = "upsert_item"
    /\ store' = Upsert(store, task[p].item[1])
    /\ upserted' = Append(upserted, <<task[p].item[1].id, task[p].at>>)
    /\ task' = [task EXCEPT ![p] =
                   Return([Touch(task[p]) EXCEPT
                              !.writes = @ + 1,
                              !.stale = get_item(store, task[p].item[1].id) # task[p].existing])]
    /\ UNCHANGED <<clock, calls_left, engine>>

UpsertFailsAfterWrite(p) ==
    /\ task[p].pc = "upsert_item"
    /\ store' = Upsert(store, task[p].item[1])
    /\ task' = [task EXCEPT ![p] = Raise(Touch(task[p]), "CosmosHttpResponseError")]
    /\ UNCHANGED <<clock, calls_left, upserted, engine>>
\* cosmos_manager.upsert_item raises CosmosHttpResponseError: nothing is written
UpsertFails(p) ==
    /\ task[p].pc = "upsert_item"
    /\ task' = [task EXCEPT ![p] = Raise(Touch(task[p]), "CosmosHttpResponseError")]
    /\ UNCHANGED <<store, clock, calls_left, upserted, engine>>

\* the caller cancels the task while it awaits: CancelledError leaves the call
\* (it is not an Exception, so no except clause handles it)
Cancel(p) ==
    /\ task[p].pc \in {"get_item", "get_embedding", "upsert_item", "get_items_by_type"}
    /\ task' = [task EXCEPT ![p] = [task[p] EXCEPT !.pc = "cancelled", !.ret = <<"error", "CancelledError">>]]
    /\ UNCHANGED <<store, clock, calls_left, upserted, engine>>

\* time passes
Tick ==
    /\ clock < MaxClock
    /\ clock' = clock + 1
    /\ UNCHANGED <<store, task, calls_left, upserted, engine>>

\* no similarity function has been called directly
NoCall == [op |-> "none", query_embedding |-> <<>>, embeddings |-> <<>>, top_k |-> 0, ret |-> None]

\* the processor after initialize(), over an empty container
Start(calls) ==
    /\ store = {}
    /\ clock = 0
    /\ task = [p \in Procs |-> Idle]
    /\ calls_left = calls
    /\ upserted = <<>>
    /\ engine = NoCall

Init == Start(MaxCalls)

Step(p) ==
    \/ GetItemAnswers(p)
    \/ GetItemFails(p)
    \/ \E embedding \in Vectors : EmbeddingAnswers(p, embedding)
    \/ \E err \in ProviderErrors : EmbeddingFails(p, err)
    \/ UpsertSucceeds(p)
    \/ UpsertFails(p)
    \/ Cancel(p)

\* one caller of process_kb_article and process_ticket: the calls follow one another
Next ==
    \/ \E article \in ArticleRaws : process_kb_article("c1", article)
    \/ \E ticket \in TicketRaws : process_ticket("c1", ticket)
    \/ Step("c1")
    \/ Tick
Spec == Init /\ [][Next]_vars

\* one call of process_dataframe
NextBatch ==
    \/ \E c \in DataFrameCalls : process_dataframe("c1", c[1], c[2])
    \/ Step("c1")
    \/ Tick
SpecBatch == Start(1) /\ [][NextBatch]_vars

\* concurrent callers of process_kb_article for one article id, whose awaits
\* all succeed
NextRace ==
    \/ \E p \in Procs, version \in RawVersions : process_kb_article(p, RawArticle(<<"KB1">>, version))
    \/ \E p \in Procs : GetItemAnswers(p)
    \/ \E p \in Procs, embedding \in Vectors : EmbeddingAnswers(p, embedding)
    \/ \E p \in Procs : UpsertSucceeds(p)
    \/ Tick
SpecRace == Start(MaxRaceCalls) /\ [][NextRace]_vars

\* the item the example of cosmos_db_manager.py upserts (lines 181-188), and a
\* ticket written the same way: documents the processor did not make
sample_item ==
    [id |-> <<"KB001">>, type |-> "kb_article", title |-> <<"Sample", "KB", "Article">>,
     content |-> <<"This", "is", "a", "sample">>, created_at |-> 0]
SampleItems ==
    {sample_item,
     [id |-> <<"T001">>, type |-> "ticket", description |-> <<"Description", "of", "T001">>,
      embedding |-> <<1, 0>>]}
\* what the provider may answer here: also a vector of another length (the
\* model was changed) and the zero vector
SearchVectors == Vectors \cup {<<1, 0, 0>>, <<0, 0>>}

\* the top_k of the searches: 5 is the default (line 163)
TopKs == {0 - 1, 0, 1, 5}

\* raw without one of its keys
Without(raw, key) == [k \in DOMAIN raw \ {key} |-> raw[k]]
\* the id process_ticket gives the ticket T1 at time 0
StoredTicketId == TicketId(RawTicket(<<"T1">>), 0)
IngestArticles ==
    {RawArticle(<<"KB1">>, <<1, 0>>), RawArticle(StoredTicketId, <<1, 0>>)}
        \cup {Without(RawArticle(<<"KB1">>, <<1, 0>>), key) : key \in ArticleKeys}
IngestTickets ==
    {RawTicket(<<"T1">>)} \cup {Without(RawTicket(<<"T1">>), key) : key \in TicketKeys}

\* one caller who passes complete records, records that lack one required
\* key, and an article whose id is the id of a stored ticket
NextIngest ==
    \/ \E article \in IngestArticles : process_kb_article("c1", article)
    \/ \E ticket \in IngestTickets : process_ticket("c1", ticket)
    \/ GetItemAnswers("c1")
    \/ GetItemFails("c1")
    \/ EmbeddingAnswers("c1", <<1, 0>>)
    \/ \E err \in ProviderErrors : EmbeddingFails("c1", err)
    \/ UpsertSucceeds("c1")
    \/ UpsertFails("c1")
SpecIngest == Start(MaxIngestCalls) /\ [][NextIngest]_vars

\* one caller who fills the container, searches it and asks for its
\* statistics; the awaits of the calls that fill the container succeed
NextSearch ==
    \/ \E id \in ArticleIds : process_kb_article("c1", RawArticle(id, <<1, 0>>))
    \/ \E ticket \in TicketRaws : process_ticket("c1", ticket)
    \/ \E item \in SampleItems : upsert_item("c1", item)
    \/ \E item_type \in {"kb_article", "ticket"}, top_k \in TopKs :
          search_similar_items("c1", item_type, top_k)
    \/ get_item_statistics("c1")
    \/ GetItemAnswers("c1")
    \/ \E embedding \in SearchVectors : EmbeddingAnswers("c1", embedding)
    \/ \E err \in ProviderErrors :
          task["c1"].op = "search_similar_items" /\ EmbeddingFails("c1", err)
    \/ UpsertSucceeds("c1")
    \/ QueryAnswers("c1")
    \/ QueryFails("c1")
\* the container outlives the program: the record an earlier run of
\* process_kb_article left for an article whose text the provider embedded as embedding
StoredArticle(id, embedding) ==
    PrepareArticle([Idle EXCEPT !.article = Some(RawArticle(id, <<1, 0>>))], embedding, 0).item[1]
StoredArticles ==
    {StoredArticle(<<"KB1">>, <<1, 1>>), StoredArticle(<<"KB2">>, <<0, 0>>),
     StoredArticle(<<"KB3">>, <<1, 0>>)}
InitSearch ==
    /\ store \in SUBSET StoredArticles
    /\ clock = 0
    /\ task = [p \in Procs |-> Idle]
    /\ calls_left = MaxSearchCalls
    /\ upserted = <<>>
    /\ engine = NoCall
SpecSearch == InitSearch /\ [][NextSearch]_vars

\* the similarity functions called directly: the arguments are drawn at the
\* start, the two actions apply the functions to them
EngineInputs ==
    [op : {"none"}, query_embedding : Embeddings, embeddings : SeqsUpTo(Embeddings, MaxCandidates),
     top_k : (0 - 1)..MaxTopK, ret : {None}]
CosineSimilarityCall ==
    /\ engine.op = "none" /\ Len(engine.embeddings) > 0
    /\ engine' = [engine EXCEPT !.op = "cosine_similarity",
                                !.ret = cosine_similarity(engine.query_embedding, engine.embeddings[1])]
    /\ UNCHANGED <<store, clock, task, calls_left, upserted>>
FindMostSimilarCall ==
    /\ engine.op = "none"
    /\ engine' = [engine EXCEPT !.op = "find_most_similar",
                                !.ret = find_most_similar(engine.query_embedding, engine.embeddings,
                                                          engine.top_k)]
    /\ UNCHANGED <<store, clock, task, calls_left, upserted>>
NextEngine == CosineSimilarityCall \/ FindMostSimilarCall
SpecEngine ==
    /\ store = {} /\ clock = 0 /\ task = [p \in Procs |-> Idle] /\ calls_left = 0 /\ upserted = <<>>
    /\ engine \in EngineInputs
    /\ [][NextEngine]_vars

\* one caller of the five operations of the processor over a container that
\* holds the articles KB1 and KB3; any await may fail
CoreDataFrames ==
    {<<<<RawArticle(<<"KB1">>, <<1, 0>>), RawArticle(<<"KB2">>, <<1, 0>>)>>, "kb_article">>,
     <<<<RawTicket(<<"T1">>), RawTicket(<<"T1">>)>>, "ticket">>}
NextCore ==
    \/ \E id \in ArticleIds : process_kb_article("c1", RawArticle(id, <<1, 0>>))
    \/ process_ticket("c1", RawTicket(<<"T1">>))
    \/ \E c \in CoreDataFrames : process_dataframe("c1", c[1], c[2])
    \/ \E item_type \in {"kb_article", "ticket"} : search_similar_items("c1", item_type, 5)
    \/ get_item_statistics("c1")
    \/ GetItemAnswers("c1")
    \/ GetItemFails("c1")
    \/ EmbeddingAnswers("c1", <<0, 1>>)
    \/ \E err \in ProviderErrors : EmbeddingFails("c1", err)
    \/ UpsertSucceeds("c1")
    \/ UpsertFails("c1")
    \/ QueryAnswers("c1")
    \/ QueryFails("c1")
    \/ Tick
InitCore ==
    /\ store = {StoredArticle(<<"KB1">>, <<1, 1>>), StoredArticle(<<"KB3">>, <<1, 0>>)}
    /\ clock = 0
    /\ task = [p \in Procs |-> Idle]
    /\ calls_left = MaxCoreCalls
    /\ upserted = <<>>
    /\ engine = NoCall
SpecCore == InitCore /\ [][NextCore]_vars

\* ---- EmbeddingManager called directly: get_embedding, get_embeddings, get_embedding_batch ----
\* the texts of the calls; one holds a newline
Texts == {<<"a">>, <<"b", "\n", "c">>, <<"b", " ", "c">>}
\* text.replace("\n", " ") (lines 39, 62)
Replace(text) == [k \in 1..Len(text) |-> IF text[k] = "\n" THEN " " ELSE text[k]]
\* the embedding the provider's model gives a text
ProviderEmbedding(text) ==
    CASE text = <<"a">> -> <<1, 0>>
      [] text = <<"b", " ", "c">> -> <<0, 1>>
      [] OTHER -> <<1, 1>>
\* the batch sizes of the calls: 100 is the default (line 75)
BatchSizes == {0 - 1, 0, 1, 2, 100}

\* the manager before a call, with the arguments of the call to come
NoEmbedCall(texts, batch_size) ==
    [op |-> "none", pc |-> "idle", texts |-> texts, batch_size |-> batch_size, i |-> 0,
     batch |-> <<>>, input |-> <<>>, all_embeddings |-> <<>>, attempts |-> 0, ret |-> None,
     \* history: the arguments of the get_embeddings calls made by
     \* get_embedding_batch, and the inputs of the requests sent to the provider
     batches |-> <<>>, requests |-> <<>>]
EmbedInputs == {NoEmbedCall(texts, batch_size) : texts \in SeqsUpTo(Texts, MaxTexts), batch_size \in BatchSizes}

EmbedReturn(E, value) == [E EXCEPT !.pc = "done", !.ret = <<"ok", value>>]
EmbedRaise(E, err) == [E EXCEPT !.pc = "failed", !.ret = <<"error", err>>]

\* get_embedding and get_embeddings up to the await of embeddings.create
\* (lines 39-44, 62-67)
StartCreate(E, texts) ==
    [E EXCEPT !.pc = "create", !.batch = texts, !.input = [k \in 1..Len(texts) |-> Replace(texts[k])]]

Min(a, b) == IF a < b THEN a ELSE b
\* texts[i:i+batch_size] with one text too many
BatchOneMore(texts, i, batch_size) == SubSeq(texts, i + 1, Min(i + batch_size + 1, Len(texts)))
\* texts[i:i+batch_size] (line 88), for i >= 0 and batch_size > 0
Batch(texts, i, batch_size) == SubSeq(texts, i + 1, Min(i + batch_size, Len(texts)))

\* i in range(0, len(texts), batch_size), for i that the range has come to
InRange(E, i) ==
    \/ E.batch_size > 0 /\ i < Len(E.texts)
    \/ E.batch_size < 0 /\ i > Len(E.texts)

\* get_embedding_batch from index i of the loop on: the next get_embeddings
\* call, or the return after the last batch (lines 87-92)
BatchLoop(E, i) ==
    IF InRange(E, i)
    THEN Only({[StartCreate(E, batch) EXCEPT !.i = i, !.batches = Append(@, batch)] :
                   batch \in {Batch(E.texts, i, E.batch_size)}})
    ELSE EmbedReturn(E, E.all_embeddings)

\* the provider has answered the request with data, one embedding per input
AfterCreate(E, data) ==
    IF E.op = "get_embedding"
    THEN EmbedReturn([E EXCEPT !.attempts = @ + 1], data[1])
    ELSE IF data = <<>>
    THEN EmbedRaise(E, "IndexError")          \* embeddings[0] (line 69)
    ELSE IF E.op = "get_embeddings"
    THEN EmbedReturn(E, data)
    ELSE BatchLoop([E EXCEPT !.all_embeddings = @ \o data], E.i + E.batch_size)

\* as AfterCreateFails, with the retry of get_embedding around every request
AfterCreateFailsRetriesAll(E, err) ==
    IF stop_after_attempt(E.attempts + 1)
    THEN [E EXCEPT !.pc = "failed", !.attempts = @ + 1, !.ret = <<"error", "RetryError", err>>]
    ELSE [E EXCEPT !.attempts = @ + 1]
\* the request has failed with err: get_embedding is retried by tenacity
\* (line 28), get_embeddings logs and re-raises (lines 71-73) and
\* get_embedding_batch lets the error through
AfterCreateFails(E, err) ==
    IF E.op = "get_embedding"
    THEN IF stop_after_attempt(E.attempts + 1)
         THEN [E EXCEPT !.pc = "failed", !.attempts = @ + 1, !.ret = <<"error", "RetryError", err>>]
         ELSE [E EXCEPT !.attempts = @ + 1]
    ELSE EmbedRaise(E, err)

\* get_embedding(texts[0]) is called
get_embedding ==
    /\ engine.op = "none" /\ Len(engine.texts) > 0
    /\ engine' = StartCreate([engine EXCEPT !.op = "get_embedding"], <<engine.texts[1]>>)
    /\ UNCHANGED <<store, clock, task, calls_left, upserted>>
\* get_embeddings(texts) is called
get_embeddings ==
    /\ engine.op = "none"
    /\ engine' = StartCreate([engine EXCEPT !.op = "get_embeddings"], engine.texts)
    /\ UNCHANGED <<store, clock, task, calls_left, upserted>>
\* get_embedding_batch(texts, batch_size) is called: range raises ValueError
\* for a step of 0
get_embedding_batch ==
    /\ engine.op = "none"
    /\ engine' = IF engine.batch_size = 0
                 THEN EmbedRaise([engine EXCEPT !.op = "get_embedding_batch"], "ValueError")
                 ELSE BatchLoop([engine EXCEPT !.op = "get_embedding_batch"], 0)
    /\ UNCHANGED <<store, clock, task, calls_left, upserted>>
\* client.embeddings.create answers the request
CreateAnswers ==
    /\ engine.pc = "create"
    /\ engine' = AfterCreate([engine EXCEPT !.requests = Append(@, engine.input)],
                             [k \in 1..Len(engine.input) |-> ProviderEmbedding(engine.input[k])])
    /\ UNCHANGED <<store, clock, task, calls_left, upserted>>
\* client.embeddings.create raises a provider error
CreateFails(err) ==
    /\ engine.pc = "create"
    /\ engine' = AfterCreateFails([engine EXCEPT !.requests = Append(@, engine.input)], err)
    /\ UNCHANGED <<store, clock, task, calls_left, upserted>>

NextEmbed ==
    \/ get_embedding
    \/ get_embeddings
    \/ get_embedding_batch
    \/ CreateAnswers
    \/ \E err \in ProviderErrors : CreateFails(err)
SpecEmbed ==
    /\ store = {} /\ clock = 0 /\ task = [p \in Procs |-> Idle] /\ calls_left = 0 /\ upserted = <<>>
    /\ engine \in EmbedInputs
    /\ [][NextEmbed]_vars

\* ---- properties ----
\* the caller's step stores an item: upsert_item succeeded
Stored(p) == task[p].pc = "upsert_item" /\ task'[p].writes = task[p].writes + 1

\* the decimal string v plus one tenth, in exact decimal arithmetic
DecimalPlusTenth(v) ==
    IF v[2] < 9 THEN [v EXCEPT ![2] = @ + 1]
    ELSE [v EXCEPT ![1] = @ + 1, ![2] = 0]

\* C1: over successive successful process_kb_article calls for one id, the
\* first call stores the version of the raw record and every later call stores
\* exactly the version stored before it plus 0.1
C1_VersionSteps ==
    [][\A p \in Procs :
          (Stored(p) /\ task[p].item_type = "kb_article") =>
              LET id == task[p].item[1].id
                  before == get_item(store, id)
                  after == get_item(store', id)
              IN  /\ after # None
                  /\ after[1].version =
                        IF before = None THEN task[p].raw[1]["Version"]
                        ELSE DecimalPlusTenth(before[1].version)]_vars

\* the version process_kb_article prepares for the raw record article when
\* get_item answers existing_article
PreparedVersion(existing_article, article) ==
    AfterGetItem(BeginArticle(Idle, article), existing_article).article[1]["Version"]

\* C2: an update stores the stored record's version incremented, whatever
\* version the raw record carries
C2_VersionFromStored ==
    [][\A p \in Procs :
          (Stored(p) /\ task[p].item_type = "kb_article" /\ get_item(store, task[p].item[1].id) # None) =>
              LET id == task[p].item[1].id
                  before == get_item(store, id)
                  after == get_item(store', id)
              IN  /\ after[1].version = IncrementVersion(before[1].version)
                  /\ \A v \in RawVersions :
                        PreparedVersion(before, [task[p].raw[1] EXCEPT !["Version"] = v])
                            = after[1].version]_vars

StoredIds == {upserted[n][1] : n \in 1..Len(upserted)}

\* C3: the store holds one record per id, and as many article records as
\* distinct article ids were ingested
C3_OneRecordPerId ==
    /\ \A d1, d2 \in store : d1.id = d2.id => d1 = d2
    /\ Cardinality(get_items_by_type(store, "kb_article")) = Cardinality(StoredIds \cap ArticleIds)
\* an article id has been ingested twice
C3_Witness ==
    \E m, n \in 1..Len(upserted) : m < n /\ upserted[m][1] = upserted[n][1] /\ upserted[m][1] \in ArticleIds
\* the upserts of tickets in the history
TicketUpserts == {n \in 1..Len(upserted) : upserted[n][1] \notin ArticleIds}
SameTrackingIndex(m, n) == upserted[m][1][1] = upserted[n][1][1]

\* C4: process_ticket never looks up a record, two ingestions of one tracking
\* index at different times leave two records with distinct ids, and n
\* ingestions at n different times leave n ticket records
C4_TicketsNeverMerged ==
    /\ \A p \in Procs :
          task[p].op = "process_ticket" => task[p].pc # "get_item" /\ task[p].existing = None
    /\ \A m, n \in TicketUpserts :
          (m < n /\ SameTrackingIndex(m, n) /\ upserted[m][2] # upserted[n][2]) =>
              /\ upserted[m][1] # upserted[n][1]
              /\ \E d \in store : d.id = upserted[m][1]
              /\ \E d \in store : d.id = upserted[n][1]
    /\ (\A m, n \in TicketUpserts : m # n => upserted[m][2] # upserted[n][2]) =>
          Cardinality(get_items_by_type(store, "ticket")) = Cardinality(TicketUpserts)
\* one tracking index has been ingested at two different times
C4_Witness ==
    \E m, n \in TicketUpserts :
        m < n /\ SameTrackingIndex(m, n) /\ upserted[m][2] # upserted[n][2]

\* C5: a call of process_kb_article or process_ticket writes at most once, as
\* its last step and with the embedding the provider gave; a call that failed or
\* was cancelled, or has not reached its upsert, leaves the store as it found it
C5_SingleWriteAtTheEnd ==
    \A p \in Procs :
        task[p].op \in {"process_kb_article", "process_ticket"} =>
            /\ task[p].writes <= 1
            /\ task[p].writes = 1 =>
                  /\ task[p].pc = "done"
                  /\ task[p].last = <<"ok", task[p].item[1].embedding>>
                  /\ store = Upsert(task[p].store0, task[p].item[1])
            /\ task[p].pc # "done" => task[p].writes = 0 /\ store = task[p].store0
\* a call failed at its upsert, or was cancelled before it, over a non-empty store
C5_Witness ==
    \E p \in Procs :
        /\ task[p].pc \in {"failed", "cancelled"}
        /\ task[p].item # None
        /\ task[p].store0 # {}

IsRetryError(ret) == Len(ret) = 3
\* C6: get_embedding calls the provider at most 5 times, returns the answer of
\* the first attempt that succeeds without calling again, and raises RetryError
\* holding the last provider error exactly when 5 attempts in a row failed
C6_AtMostFiveAttempts ==
    /\ [](\A p \in Procs :
            /\ task[p].attempts <= 5
            /\ task[p].pc = "get_embedding" =>
                  /\ task[p].attempts < 5
                  /\ task[p].attempts > 0 => task[p].last[1] = "error"
            /\ (task[p].last # None /\ task[p].last[1] = "ok" /\ task[p].item # None) =>
                  task[p].item[1].embedding = task[p].last[2]
            /\ IsRetryError(task[p].ret) <=>
                  (task[p].pc = "failed" /\ task[p].attempts = 5 /\ task[p].last[1] = "error")
            /\ IsRetryError(task[p].ret) => task[p].ret[3] = task[p].last[2])
    /\ [][\A p \in Procs :
            task'[p].attempts > task[p].attempts =>
                /\ task'[p].attempts = task[p].attempts + 1
                /\ task[p].pc = "get_embedding"
                /\ task[p].last = None \/ task[p].last[1] = "error"]_vars
\* four attempts failed and the fifth succeeded
C6_Witness ==
    \E p \in Procs :
        task[p].attempts = 5 /\ task[p].last[1] = "ok" /\ task[p].pc = "upsert_item"

FromRow(item, row, item_type) ==
    IF item_type = "kb_article"
    THEN item.type = "kb_article" /\ item.id = row["KB Article #"] /\ item.title = row["Title"]
    ELSE /\ item.type = "ticket" /\ item.tracking_index = row["tracking_index"]
         /\ item.description = row["Description"]

\* C8: a successful process_dataframe returns one stored record per row, the
\* i-th made from the i-th row
C8_BatchKeepsOrder ==
    \A p \in Procs :
        (task[p].op = "process_dataframe" /\ task[p].pc = "done") =>
            /\ task[p].ret[1] = "ok"
            /\ Len(task[p].ret[2]) = Len(task[p].df)
            /\ Len(upserted) = Len(task[p].df)
            /\ \A n \in 1..Len(task[p].df) :
                  /\ FromRow(task[p].ret[2][n], task[p].df[n], task[p].item_type)
                  /\ upserted[n][1] = task[p].ret[2][n].id
\* a DataFrame of two rows with different ids has been processed
C8_Witness ==
    \E p \in Procs :
        /\ task[p].op = "process_dataframe" /\ task[p].pc = "done"
        /\ Len(task[p].df) = 2 /\ task[p].df[1] # task[p].df[2]

\* an await of caller p ends with an exception
ItemFails(p) ==
    /\ task'[p] # task[p]
    /\ task'[p].pc # "cancelled"
    /\ \/ task[p].pc = "get_item" /\ task'[p].pc # "get_embedding"
       \/ task[p].pc = "get_embedding" /\ task'[p].pc \notin {"get_embedding", "upsert_item"}
       \/ task[p].pc = "upsert_item" /\ task'[p].writes = task[p].writes

\* C9: when the item of row i fails, process_dataframe fails with that error,
\* returns no items, makes no call for a later row, and the items of the rows
\* before i stay stored
C9_BatchStopsAtFirstFailure ==
    [][\A p \in Procs :
          /\ (task[p].op = "process_dataframe" /\ ItemFails(p)) =>
                LET L == task'[p]
                IN  /\ L.pc = "failed"
                    /\ L.ret[1] = "error"
                    /\ L.ret[2] = (IF task[p].pc = "get_embedding" THEN "RetryError"
                                   ELSE "CosmosHttpResponseError")
                    /\ store' = store
                    /\ L.touched = L.i
                    /\ Len(L.processed_items) = L.i - 1
                    /\ Len(upserted') = L.i - 1
                    /\ \A n \in 1..(L.i - 1) :
                          /\ upserted'[n][1] = L.processed_items[n].id
                          /\ \E d \in store' : d.id = L.processed_items[n].id
                          /\ (\A m \in (n + 1)..(L.i - 1) :
                                 L.processed_items[m].id # L.processed_items[n].id) =>
                                L.processed_items[n] \in store'
          /\ (task[p].op = "process_dataframe" /\ task[p].pc = "failed") =>
                (task'[p] = task[p] \/ calls_left' < calls_left)]_vars
\* the second row failed after the first one was stored
C9_Witness ==
    \E p \in Procs :
        /\ task[p].op = "process_dataframe" /\ task[p].pc = "failed"
        /\ task[p].i = 2 /\ Len(task[p].processed_items) = 1
        /\ task[p].processed_items[1] \in store

\* C10: process_dataframe with an item_type other than 'kb_article' and
\* 'ticket' raises ValueError before any provider or store call, whatever the
\* DataFrame, the empty one included
C10_InvalidItemTypeRaises ==
    \A p \in Procs :
        (task[p].op = "process_dataframe" /\ task[p].item_type \notin {"kb_article", "ticket"}) =>
            /\ task[p].pc = "failed"
            /\ task[p].ret = <<"error", "ValueError">>
            /\ task[p].touched = 0 /\ task[p].writes = 0
\* x == y of two doubles
FloatEq(x, y) == ~x.nan /\ ~y.nan /\ x = y
\* find_most_similar has returned a ranking
Ranked == engine.op = "find_most_similar" /\ engine.ret[1] = "ok"
\* the similarity of the candidate of index i (from 0) to the query
SimilarityOf(i) == cosine_similarity(engine.query_embedding, engine.embeddings[i + 1])[2]
LeftOut == {i \in 0..(Len(engine.embeddings) - 1) : \A a \in 1..Len(engine.ret[2]) : engine.ret[2][a] # i}

\* C11: find_most_similar returns the indices by non-increasing similarity,
\* equal similarities in ascending index order; no candidate left out has a
\* greater similarity than a returned one, and among equal similarities the
\* earlier index is the one returned
C11_RankedBySimilarity ==
    Ranked =>
        LET r == engine.ret[2]
        IN  /\ \A a, b \in 1..Len(r) :
                  a < b => /\ ~FloatLess(SimilarityOf(r[a]), SimilarityOf(r[b]))
                           /\ FloatEq(SimilarityOf(r[a]), SimilarityOf(r[b])) => r[a] < r[b]
            /\ \A a \in 1..Len(r), j \in LeftOut :
                  /\ ~FloatLess(SimilarityOf(r[a]), SimilarityOf(j))
                  /\ FloatEq(SimilarityOf(r[a]), SimilarityOf(j)) => r[a] < j

\* C12: for top_k >= 0 and n candidates of the query's length, find_most_similar
\* raises nothing and returns min(top_k, n) pairwise distinct indices of 0..n-1:
\* all n when top_k > n, none when n = 0
C12_MinOfKAndN ==
    (/\ engine.op = "find_most_similar"
     /\ engine.top_k >= 0
     /\ \A i \in 1..Len(engine.embeddings) :
           Len(engine.embeddings[i]) = Len(engine.query_embedding)) =>
        LET n == Len(engine.embeddings)
        IN  /\ engine.ret[1] = "ok"
            /\ Len(engine.ret[2]) = (IF engine.top_k < n THEN engine.top_k ELSE n)
            /\ \A a \in 1..Len(engine.ret[2]) : engine.ret[2][a] \in 0..(n - 1)
            /\ \A a, b \in 1..Len(engine.ret[2]) : a # b => engine.ret[2][a] # engine.ret[2][b]
\* top_k exceeds the number of candidates and all of them are returned
C12_Witness ==
    /\ Ranked
    /\ Len(engine.embeddings) >= 2
    /\ engine.top_k > Len(engine.embeddings)
    /\ Len(engine.ret[2]) = Len(engine.embeddings)
\* the items of a search that has come to the ranking all carry an embedding and a text
Rankable(p) ==
    /\ task[p].op = "search_similar_items" /\ task[p].items # None
    /\ \A i \in 1..Len(task[p].items[1]) :
          {"embedding", IF task[p].item_type = "kb_article" THEN "title" ELSE "description"}
              \subseteq DOMAIN task[p].items[1][i]
Mismatched(p) ==
    {i \in 1..Len(task[p].items[1]) : Len(task[p].items[1][i].embedding) # Len(task[p].last[2])}

\* C13: cosine_similarity of two vectors of different lengths raises, and so do
\* find_most_similar and search_similar_items whenever a candidate's embedding
\* differs in length from the query's: no ranking is returned
C13_DimensionMismatchRaises ==
    /\ \A embedding1, embedding2 \in Embeddings :
          Len(embedding1) # Len(embedding2) =>
              cosine_similarity(embedding1, embedding2) = <<"error", "ValueError">>
    /\ \A p \in Procs :
          (Rankable(p) /\ Mismatched(p) # {}) =>
              LET items == task[p].items[1]
              IN  /\ \A i \in Mismatched(p) :
                        cosine_similarity(task[p].last[2], items[i].embedding)[1] = "error"
                  /\ find_most_similar(task[p].last[2],
                                       [i \in 1..Len(items) |-> items[i].embedding],
                                       task[p].top_k) = <<"error", "ValueError">>
                  /\ task[p].pc = "failed"
                  /\ task[p].ret = <<"error", "ValueError">>
\* a search failed over two candidates, one of the query's length and one of another
C13_Witness ==
    \E p \in Procs :
        /\ Rankable(p) /\ task[p].pc = "failed"
        /\ Len(task[p].items[1]) = 2
        /\ Cardinality(Mismatched(p)) = 1

\* C14: a search with top_k >= 0 that returns gives at most top_k results, each
\* made from a stored record of the kind asked for and no record twice (its id,
\* the kind, its title or description, its similarity to the query), by
\* non-increasing similarity; with no record of the kind it returns the empty list
C14_SearchResults ==
    \A p \in Procs :
        /\ (task[p].op = "search_similar_items" /\ task[p].pc = "done" /\ task[p].top_k >= 0) =>
              LET r == task[p].ret[2]
                  text == IF task[p].item_type = "kb_article" THEN "title" ELSE "description"
              IN  /\ task[p].ret[1] = "ok"
                  /\ Len(r) <= task[p].top_k
                  /\ \A a \in 1..Len(r) :
                        \E d \in get_items_by_type(store, task[p].item_type) :
                            /\ r[a].id = d.id
                            /\ r[a].type = task[p].item_type
                            /\ r[a].content = d[text]
                            /\ r[a].similarity = cosine_similarity(task[p].last[2], d.embedding)[2]
                  /\ \A a, b \in 1..Len(r) :
                        a < b => /\ r[a].id # r[b].id
                                 /\ ~FloatLess(r[a].similarity, r[b].similarity)
        /\ (task[p].op = "search_similar_items" /\ task[p].items = Some(<<>>)) =>
              task[p].pc = "done" /\ task[p].ret = <<"ok", <<>>>>

RECURSIVE SumOver(_, _)
SumOver(table, keys) ==
    IF keys = {} THEN 0
    ELSE LET k == CHOOSE x \in keys : TRUE
         IN  table[k] + SumOver(table, keys \ {k})
\* table counts every document of docs once, under its value of key or under "Unknown"
CountsOnce(table, docs, key) ==
    /\ DOMAIN table = {Get(d, key, Unknown) : d \in docs}
    /\ \A v \in DOMAIN table : table[v] = Cardinality({d \in docs : Get(d, key, Unknown) = v})
    /\ SumOver(table, DOMAIN table) = Cardinality(docs)

\* C15: get_item_statistics counts every stored article once in the category
\* table and every stored ticket once in the quality and in the proficiency
\* table, under "Unknown" when the attribute is missing; the counts of a table
\* add up to the total of its kind
C15_StatisticsCountOnce ==
    \A p \in Procs :
        (task[p].op = "get_item_statistics" /\ task[p].pc = "done") =>
            LET stats == task[p].ret[2]
                kb_articles == get_items_by_type(store, "kb_article")
                tickets == get_items_by_type(store, "ticket")
            IN  /\ stats.total_kb_articles = Cardinality(kb_articles)
                /\ stats.total_tickets = Cardinality(tickets)
                /\ CountsOnce(stats.kb_article_categories, kb_articles, "category")
                /\ CountsOnce(stats.ticket_quality_distribution, tickets, "ticket_quality")
                /\ CountsOnce(stats.user_proficiency_distribution, tickets, "user_proficiency")
\* statistics over an article with a category and a document without one
C15_Witness ==
    \E p \in Procs :
        /\ task[p].op = "get_item_statistics" /\ task[p].pc = "done"
        /\ Unknown \in DOMAIN task[p].ret[2].kb_article_categories
        /\ Cardinality(DOMAIN task[p].ret[2].kb_article_categories) = 2
Required(op) == IF op = "process_kb_article" THEN ArticleKeys ELSE TicketKeys
LacksRequiredKey(p) ==
    /\ task[p].op \in {"process_kb_article", "process_ticket"}
    /\ task[p].raw # None
    /\ ~(Required(task[p].op) \subseteq DOMAIN task[p].raw[1])

C17_TypeNeverChanges ==
    [][\A d \in store : \A e \in store' : e.id = d.id => e.type = d.type]_vars
\* C18: the step that ends the lookup of process_kb_article either fails the
\* call with the store's error and writes nothing, or goes on with what the
\* store holds for the id; when the id is not stored the call goes on to the
\* embedding as a create, the version of the raw record unchanged, and the
\* upsert of a create stores the record with that version
C18_NotFoundIsCreate ==
    [][\A p \in Procs :
          LET L == task[p]
              after == task'[p]
          IN  /\ (L.op = "process_kb_article" /\ L.pc = "get_item" /\ after # L) =>
                    \/ after.pc = "cancelled"
                    \/ /\ after.pc = "failed"
                       /\ after.ret = <<"error", "CosmosHttpResponseError">>
                       /\ store' = store
                    \/ /\ after.existing # None
                       /\ after.existing = get_item(store, L.raw[1]["KB Article #"])
                    \/ /\ after.existing = None
                       /\ get_item(store, L.raw[1]["KB Article #"]) = None
                       /\ after.pc = "get_embedding"
                       /\ after.article[1]["Version"] = L.raw[1]["Version"]
              /\ (L.op = "process_kb_article" /\ L.existing = None /\ Stored(p)) =>
                    /\ after.pc = "done"
                    /\ get_item(store', L.raw[1]["KB Article #"]) = Some(after.ret[2])
                    /\ after.ret[2].version = L.raw[1]["Version"]]_vars
\* a create has returned: the lookup found nothing under the id although the
\* store held another article, and the record stored has the raw record's version
C18_Witness ==
    \E p \in Procs :
        /\ task[p].op = "process_kb_article" /\ task[p].pc = "done"
        /\ task[p].existing = None
        /\ task[p].store0 # {}
        /\ task[p].ret[2] \in store
        /\ task[p].ret[2].version = task[p].raw[1]["Version"]
\* the rows before row i of df that carry the article id of row i
EarlierRows(df, i) == {k \in 1..(i - 1) : df[k]["KB Article #"] = df[i]["KB Article #"]}
Latest(rows) == CHOOSE k \in rows : \A n \in rows : n <= k

\* C19: process_dataframe handles its rows one after another: the row whose
\* provider and store calls are made never goes back, a row is begun only by the
\* step that stores the row before it, and the lookup of a row whose article id
\* came in an earlier row answers the record stored for that row, so that the
\* row is handled as an update of it
C19_BatchRowsInSequence ==
    [][\A p \in Procs :
          LET L == task[p]
              after == task'[p]
          IN  (L.op = "process_dataframe" /\ after.op = "process_dataframe") =>
                  /\ after.touched >= L.touched
                  /\ after.touched <= after.i
                  /\ after.i # L.i =>
                        /\ Stored(p)
                        /\ L.touched = L.i
                        /\ after.i = L.i + 1
                        /\ Len(after.processed_items) = L.i
                  /\ (L.pc = "get_item" /\ after.pc = "get_embedding"
                        /\ EarlierRows(L.df, L.i) # {}) =>
                        /\ after.existing = Some(L.processed_items[Latest(EarlierRows(L.df, L.i))])
                        /\ after.existing[1] \in store
                        /\ after.article[1] = Merge(after.existing[1],
                                                    [L.df[L.i] EXCEPT !["Version"] = after.article[1]["Version"]])
                        /\ after.article[1]["Version"] # L.df[L.i]["Version"]]_vars
\* both rows of a DataFrame carry the same article id, and the second was
\* stored as an update of the record of the first
C19_Witness ==
    \E p \in Procs :
        /\ task[p].op = "process_dataframe" /\ task[p].pc = "done"
        /\ task[p].item_type = "kb_article"
        /\ Len(task[p].df) = 2
        /\ task[p].df[1]["KB Article #"] = task[p].df[2]["KB Article #"]
        /\ task[p].existing = Some(task[p].ret[2][1])
\* C20: a process_kb_article that returns has made one get_item call, then one
\* get_embedding call, then one upsert_item call, and nothing else; a
\* process_ticket that returns has made one get_embedding call and then one
\* upsert_item call, and no lookup; the one get_embedding call asks the
\* provider at least once and at most MaxAttempts times, and one item is written
C20_CallsOfAnIngestion ==
    \A p \in Procs :
        /\ (task[p].op = "process_kb_article" /\ task[p].pc = "done") =>
              /\ task[p].calls = <<"get_item", "get_embedding", "upsert_item">>
              /\ task[p].attempts \in 1..MaxAttempts
              /\ task[p].writes = 1
        /\ (task[p].op = "process_ticket" /\ task[p].pc = "done") =>
              /\ task[p].calls = <<"get_embedding", "upsert_item">>
              /\ task[p].attempts \in 1..MaxAttempts
              /\ task[p].writes = 1
\* an update of a stored article has returned after the provider failed once
C20_Witness ==
    \E p \in Procs :
        /\ task[p].op = "process_kb_article" /\ task[p].pc = "done"
        /\ task[p].existing # None
        /\ task[p].attempts = 2
\* C21: two ticket ingestions of one tracking index never get the same id,
\* whatever the clock read, so that every ticket stored is still in the store
\* under its own id
C21_TicketIdsUnique ==
    /\ \A m, n \in TicketUpserts :
          (m < n /\ SameTrackingIndex(m, n)) =>
              /\ upserted[m][1] # upserted[n][1]
              /\ \E d \in store : d.id = upserted[m][1]
    /\ Cardinality(get_items_by_type(store, "ticket")) = Cardinality(TicketUpserts)
\* the calls named call among the calls the processing of p's item has made
CallsOf(p, call) == {n \in 1..Len(task[p].calls) : task[p].calls[n] = call}

\* C22: a process_kb_article or process_ticket whose raw record lacks a
\* required key fails at once: it makes no get_embedding call, so the provider
\* is never asked and no attempt is retried, and it writes nothing
C22_MissingFieldFailsAtOnce ==
    \A p \in Procs :
        LacksRequiredKey(p) =>
            /\ CallsOf(p, "get_embedding") = {}
            /\ task[p].attempts = 0
            /\ ~IsRetryError(task[p].ret)
            /\ CallsOf(p, "upsert_item") = {}
            /\ task[p].writes = 0
            /\ store = task[p].store0
StoreCalls == {"get_item", "upsert_item"}
StoreFailed(L) == L.pc = "failed" /\ L.ret = <<"error", "CosmosHttpResponseError">>

\* C23: process_kb_article and process_ticket make each store call once: a
\* call never waits for the store a second time, and a call the store failed
\* ends with the store's error as soon as the store call it was waiting for
\* ends, nothing written; a lookup that failed was the only call made, so the
\* provider was not asked
C23_StoreFailureNotRetried ==
    /\ [](\A p \in Procs :
            task[p].op \in {"process_kb_article", "process_ticket"} =>
                /\ \A call \in StoreCalls : Cardinality(CallsOf(p, call)) <= 1
                /\ StoreFailed(task[p]) =>
                      /\ task[p].writes = 0
                      /\ store = task[p].store0
                      /\ \/ /\ task[p].calls = <<"get_item">>
                            /\ task[p].attempts = 0 /\ task[p].last = None
                         \/ /\ task[p].calls[Len(task[p].calls)] = "upsert_item"
                            /\ task[p].last[1] = "ok"
                            /\ task[p].item # None)
    /\ [][\A p \in Procs :
            (/\ task[p].op \in {"process_kb_article", "process_ticket"}
             /\ task[p].pc \in StoreCalls
             /\ task'[p] # task[p]) =>
                /\ task'[p].pc \notin StoreCalls
                /\ StoreFailed(task'[p]) => task'[p].calls = task[p].calls /\ store' = store]_vars
\* the lookup of an article whose id is stored has failed
C23_Witness ==
    \E p \in Procs :
        /\ task[p].op = "process_kb_article"
        /\ StoreFailed(task[p])
        /\ task[p].calls = <<"get_item">>
        /\ get_item(task[p].store0, task[p].raw[1]["KB Article #"]) # None
\* what the provider is sent for texts: every text with its newlines replaced
InputOf(texts) == [k \in 1..Len(texts) |-> Replace(texts[k])]

\* C24: get_embeddings sends the provider one request, which carries all the
\* texts, and never a second one: when the request fails the call fails with
\* the provider's error, not retried; get_embedding fails only after
\* MaxAttempts requests, with RetryError
C24_BatchCallNotRetried ==
    /\ engine.op = "get_embeddings" =>
          /\ engine.attempts = 0
          /\ engine.pc = "create" => engine.requests = <<>>
          /\ engine.pc \in {"done", "failed"} => engine.requests = <<InputOf(engine.texts)>>
          /\ engine.pc = "done" => engine.ret[1] = "ok" /\ Len(engine.ret[2]) = Len(engine.texts)
          /\ engine.pc = "failed" =>
                /\ ~IsRetryError(engine.ret)
                /\ \/ engine.ret[2] \in ProviderErrors
                   \/ engine.ret[2] = "IndexError" /\ engine.texts = <<>>
    /\ (engine.op = "get_embedding" /\ engine.pc = "failed") =>
          /\ IsRetryError(engine.ret)
          /\ Len(engine.requests) = MaxAttempts
\* a get_embeddings call of several texts has failed with the provider's error
C24_Witness ==
    /\ engine.op = "get_embeddings" /\ engine.pc = "failed"
    /\ Len(engine.texts) > 1
    /\ engine.ret[2] \in ProviderErrors

\* the number of batches of n texts: ceil(n / batch_size)
NumBatches(n, batch_size) == (n + batch_size - 1) \div batch_size
\* the first n sequences of seqs, concatenated
RECURSIVE Concat(_, _)
Concat(seqs, n) == IF n = 0 THEN <<>> ELSE Concat(seqs, n - 1) \o seqs[n]

\* C25: get_embedding_batch with batch_size >= 1 calls get_embeddings for the
\* consecutive batches of the texts, in order: every batch has batch_size texts
\* but the last, which has the texts that are left; each call sends one
\* request; the call returns, after ceil(n / batch_size) batches, the
\* embeddings of the n texts in the order of the texts; a batch that fails
\* fails the call, and no batch is requested after it
C25_BatchesInOrder ==
    /\ [](LET n == Len(engine.texts)
              batch_size == engine.batch_size
              made == Len(engine.batches)
          IN  (engine.op = "get_embedding_batch" /\ batch_size >= 1) =>
                  /\ made <= NumBatches(n, batch_size)
                  /\ \A k \in 1..made :
                        Len(engine.batches[k]) =
                            IF k < NumBatches(n, batch_size) THEN batch_size
                            ELSE n - (NumBatches(n, batch_size) - 1) * batch_size
                  /\ Concat(engine.batches, made) = SubSeq(engine.texts, 1, Len(Concat(engine.batches, made)))
                  /\ Len(engine.requests) = IF engine.pc = "create" THEN made - 1 ELSE made
                  /\ \A k \in 1..Len(engine.requests) : engine.requests[k] = InputOf(engine.batches[k])
                  /\ engine.pc = "done" =>
                        /\ made = NumBatches(n, batch_size)
                        /\ engine.ret = <<"ok", [i \in 1..n |-> ProviderEmbedding(Replace(engine.texts[i]))]>>
                  /\ engine.pc = "failed" =>
                        /\ engine.ret[2] \in ProviderErrors
                        /\ made >= 1
                        /\ Len(engine.all_embeddings) = (made - 1) * batch_size)
    /\ [][engine.pc = "failed" => engine' = engine]_vars
\* three texts, one with a newline, have been embedded in batches of two and one
C25_Witness ==
    /\ engine.op = "get_embedding_batch" /\ engine.pc = "done"
    /\ engine.batch_size = 2
    /\ Len(engine.batches) = 2
    /\ Len(engine.batches[2]) = 1
    /\ engine.texts[2] = <<"b", "\n", "c">>
IdsOf(st) == {d.id : d \in st}

\* C26: no step of process_kb_article, process_ticket, process_dataframe,
\* search_similar_items or get_item_statistics takes an id out of the store
C26_NothingDeleted ==
    [][IdsOf(store) \subseteq IdsOf(store')]_vars
\* a DataFrame of two articles has been stored over the two stored articles:
\* one row updated a record, the other created one
C26_Witness ==
    \E p \in Procs :
        /\ task[p].op = "process_dataframe" /\ task[p].pc = "done"
        /\ task[p].writes = 2
        /\ Cardinality(task[p].store0) = 2
        /\ Cardinality(IdsOf(store)) = 3
Ingestions == {"process_kb_article", "process_ticket"}

\* C27: a process_kb_article or process_ticket call changes at most the record
\* of the id it upserts: every record of another id that was stored when the
\* call began is stored unchanged at every step of the call and after it,
\* nothing but the item of the call is added, a call that has not returned has
\* changed nothing, and a step takes a document out of the store only by
\* storing the item of the same id
C27_OtherRecordsUntouched ==
    /\ [](\A p \in Procs :
            task[p].op \in Ingestions =>
                /\ \A d \in task[p].store0 :
                      (task[p].item = None \/ d.id # task[p].item[1].id) => d \in store
                /\ \A d \in store :
                      d \in task[p].store0 \/ (task[p].item # None /\ d = task[p].item[1])
                /\ task[p].pc # "done" => store = task[p].store0)
    /\ [][\A d \in store :
            d \notin store' =>
                \E p \in Procs :
                    /\ task[p].pc = "upsert_item"
                    /\ task[p].item[1].id = d.id
                    /\ task[p].item[1] \in store']_vars
\* process_kb_article has updated a stored article while another article was
\* stored, and process_ticket has stored a ticket beside two articles
C27_Witness ==
    \E p \in Procs :
        /\ task[p].op = "process_ticket" /\ task[p].pc = "done"
        /\ \E d \in task[p].store0 : d.id = <<"KB1">> /\ d.version # <<1, 0>>
        /\ \E d \in store : d.id = <<"KB3">>
        /\ Cardinality(store) = 3
Readers == {"search_similar_items", "get_item_statistics"}

\* C28: search_similar_items and get_item_statistics write nothing: the store
\* is at every step of the call, and after it, what it was when the call
\* began, whether the call returns or fails; search_similar_items comes to its
\* store query only from the get_embedding call that answered, so a search
\* whose embedding failed has made no store query
C28_ReadersWriteNothing ==
    /\ [](\A p \in Procs :
            task[p].op \in Readers =>
                /\ store = task[p].store0
                /\ task[p].writes = 0 /\ task[p].item = None
                /\ (task[p].op = "search_similar_items"
                        /\ (task[p].last = None \/ task[p].last[1] = "error")) =>
                      /\ task[p].pc \in {"get_embedding", "failed"}
                      /\ task[p].items = None
                /\ IsRetryError(task[p].ret) => task[p].items = None)
    /\ [][\A p \in Procs :
            (task'[p].op \in Readers /\ task'[p] # task[p]) =>
                /\ store' = store /\ upserted' = upserted
                /\ (task'[p].op = "search_similar_items" /\ task'[p].pc = "get_items_by_type") =>
                      /\ task[p].op = "search_similar_items" /\ task[p].pc = "get_embedding"
                      /\ task'[p].last[1] = "ok"]_vars
\* a search over a container that holds articles has failed at the embedding
\* of its query
C28_Witness ==
    \E p \in Procs :
        /\ task[p].op = "search_similar_items" /\ task[p].pc = "failed"
        /\ IsRetryError(task[p].ret)
        /\ get_items_by_type(store, task[p].item_type) # {}
====
